---- MODULE Spec2Model ----
(***************************************************************************)
(* A model of uithoorn_checker.py: the date resolver, the slot-label       *)
(* parser of read_available_times, match_targets, the calendar navigation  *)
(* (go_to_month, pick_date) against a page with an asynchronous slot-list  *)
(* refresh, and the control flow of main with its try/finally.             *)
(***************************************************************************)
EXTENDS Integers, Sequences, FiniteSets, TLC

VARIABLES
    pc,            \* position of main
    today,         \* dt.date.today(), a proleptic Gregorian ordinal
    driver,        \* "none" | "open" | "quit"
    quitCount,     \* number of driver.quit() calls
    raised,        \* an exception left (or is leaving) main
    durCalls,      \* number of select_duration calls
    durSelected,   \* select_duration returned normally
    target_dates,  \* weekday -> ordinal, <<>> before it is resolved
    todo,          \* the remaining (wd) of sorted(target_dates.items())
    cur,           \* weekday of the loop iteration in progress, -1 outside
    attempted,     \* weekdays whose iteration started (go_to_month called)
    navigated,     \* weekdays for which go_to_month returned normally
    monthOk,       \* for each navigated wd: the month shown was the target's
    clicks,        \* wd -> the cell pick_date clicked
    readLog,       \* wd -> [shown |-> date the list belonged to, slots |-> available]
    all_hits,      \* the accumulated Slot(date, start, end) list
    reported,      \* the report files were written
    calMonth,      \* page: <<month, year>> the calendar displays
    labelKind,     \* page: how the header labels the month
    overflowMode,  \* page: how the grid renders adjacent-month cells
    listFor,       \* page: the date whose slot list the control shows (0: none)
    listLabels,    \* page: the labels in the slot-list control
    pending,       \* page: date whose slot list is still loading (0: none)
    label,         \* parser harness: a raw slot label
    parsed,        \* parser harness: what read_available_times made of it
    availA,        \* matcher harness: an available list
    availB,        \* matcher harness: another available list
    mwd,           \* matcher harness: weekday
    hitsA,         \* matcher harness: match_targets(availA, targets)
    hitsB,         \* matcher harness: match_targets(availB, targets)
    phase          \* harness position

mainVars == <<pc, today, driver, quitCount, raised, durCalls,
              durSelected, target_dates, todo, cur, attempted, navigated,
              monthOk, clicks, readLog, all_hits, reported, calMonth,
              labelKind, overflowMode, listFor, listLabels, pending>>
harnessVars == <<label, parsed, availA, availB, mwd, hitsA, hitsB, phase>>
vars == <<mainVars, harnessVars>>

----------------------------------------------------------------------------
(* Bounds *)

\* number of consecutive values of "today" explored
TodaySpan == 8
\* longest raw slot label explored by the parser harness
MaxLabelLen == 5
\* longest available list explored by the matcher harness
MaxAvail == 2

\* first "today": 2024-12-16, a Monday (dt.date(2024,12,16).toordinal())
TodayFirst == 739236

----------------------------------------------------------------------------
(* datetime.date, as proleptic Gregorian ordinals *)

Years == 2023..2030

IsLeap(y) == (y % 4 = 0) /\ ((y % 100 # 0) \/ (y % 400 = 0))

DaysBeforeYear(y) ==
    LET p == y - 1 IN p * 365 + (p \div 4) - (p \div 100) + (p \div 400)

DaysInMonth(y, m) ==
    IF m = 2 THEN (IF IsLeap(y) THEN 29 ELSE 28)
    ELSE IF m \in {4, 6, 9, 11} THEN 30 ELSE 31

RECURSIVE DaysBeforeMonth(_, _)
DaysBeforeMonth(y, m) ==
    IF m = 1 THEN 0 ELSE DaysBeforeMonth(y, m - 1) + DaysInMonth(y, m - 1)

Ordinal(y, m, d) == DaysBeforeYear(y) + DaysBeforeMonth(y, m) + d

YearOf(o) == CHOOSE y \in Years : DaysBeforeYear(y) < o /\ o <= DaysBeforeYear(y + 1)

MonthOf(o) ==
    LET y == YearOf(o) IN
    CHOOSE m \in 1..12 :
        /\ Ordinal(y, m, 1) <= o
        /\ o < Ordinal(y, m, 1) + DaysInMonth(y, m)

DayOf(o) == o - Ordinal(YearOf(o), MonthOf(o), 1) + 1

\* date.weekday(): Monday is 0; ordinal 1 (0001-01-01) is a Monday
weekday(o) == (o + 6) % 7

----------------------------------------------------------------------------
(* Config *)

\* A string is a sequence of symbols; a clock time such as "20:00" is one
\* symbol (its five characters never take part in any operation separately).
Str(t) == <<t>>

Win(s, e) == <<Str(s), Str(e)>>

TargetWeekdays == {0, 3, 5, 6}

TARGET_WINDOWS(wd) ==
    CASE wd = 0 -> <<Win("20:00", "21:30")>>
      [] wd = 3 -> <<Win("20:00", "21:30")>>
      [] wd = 5 -> <<Win("17:00", "18:30")>>
      [] wd = 6 -> <<Win("14:00", "15:30"), Win("15:30", "17:00")>>
      [] OTHER -> <<>>

Range(seq) == {seq[i] : i \in 1..Len(seq)}

----------------------------------------------------------------------------
(* get_target_dates_two_weeks_ahead *)

\* a variant that takes, for each weekday, its first occurrence on or after
\* today + 14 instead of snapping to the week that contains today + 14
get_target_dates_next_occurrence(t) ==
    LET future == t + 14
    IN  [wd \in TargetWeekdays |-> future + ((wd - weekday(future)) % 7)]

get_target_dates_two_weeks_ahead(t) ==
    LET future == t + 14
        monday == future - weekday(future)
    IN  [wd \in TargetWeekdays |-> monday + wd]

\* sorted(target_dates.items()): the weekdays in ascending order
RECURSIVE SortedKeys(_)
SortedKeys(S) ==
    IF S = {} THEN <<>>
    ELSE LET m == CHOOSE x \in S : \A y \in S : x <= y
         IN  <<m>> \o SortedKeys(S \ {m})

----------------------------------------------------------------------------
(* read_available_times: the label filter and the parsing of one label *)

SP   == "SP"      \* U+0020
NBSP == "NBSP"    \* U+00A0
HY   == "-"       \* U+002D
EN   == "EN"      \* U+2013
EM   == "EM"      \* U+2014
LETTER == "x"     \* any other printable character

Times == {"09:00", "10:30", "14:00", "15:30", "17:00", "18:30", "20:00", "21:30"}

\* str.isspace() of the symbols of the model
IsSpace(c) == c \in {SP, NBSP}

RECURSIVE lstrip(_)
lstrip(s) == IF s # <<>> /\ IsSpace(Head(s)) THEN lstrip(Tail(s)) ELSE s

RECURSIVE rstrip(_)
rstrip(s) ==
    IF s # <<>> /\ IsSpace(s[Len(s)]) THEN rstrip(SubSeq(s, 1, Len(s) - 1)) ELSE s

\* str.strip()
strip(s) == rstrip(lstrip(s))

\* str.replace(old, new) for single characters
replace(s, old, new) == [i \in 1..Len(s) |-> IF s[i] = old THEN new ELSE s[i]]

\* str.split(sep) for a single-character separator: always at least one part
RECURSIVE split(_, _)
split(s, sep) ==
    IF \A i \in 1..Len(s) : s[i] # sep THEN <<s>>
    ELSE LET k == CHOOSE i \in 1..Len(s) : s[i] = sep /\ \A j \in 1..(i - 1) : s[j] # sep
         IN  <<SubSeq(s, 1, k - 1)>> \o split(SubSeq(s, k + 1, Len(s)), sep)

\* line 237: contains(text(),':') and (contains(text(),EN) or contains(text(),'-'))
XPathSelects(text) ==
    /\ \E i \in 1..Len(text) : text[i] \in Times
    /\ \E i \in 1..Len(text) : text[i] \in {EN, HY}

\* lines 240-244: the pairs one selected element contributes (none or one)
ParseLabel(text) ==
    LET txt == replace(replace(replace(strip(text), EN, HY), EN, HY), EM, HY)
    IN  IF \E i \in 1..Len(txt) : txt[i] = HY
        THEN LET parts == split(txt, HY)
             IN  IF Len(parts) = 2
                 THEN {<<strip(parts[1]), strip(parts[2])>>}
                 ELSE {}
        ELSE {}

\* code point order of the symbols, for sorted()
Rank(c) ==
    CASE c = SP -> 0
      [] c = HY -> 1
      [] c = "09:00" -> 2
      [] c = "10:30" -> 3
      [] c = "14:00" -> 4
      [] c = "15:30" -> 5
      [] c = "17:00" -> 6
      [] c = "18:30" -> 7
      [] c = "20:00" -> 8
      [] c = "21:30" -> 9
      [] c = LETTER -> 10
      [] c = NBSP -> 11
      [] c = EN -> 12
      [] c = EM -> 13

\* s < t for strings
RECURSIVE StrLess(_, _)
StrLess(s, t) ==
    IF t = <<>> THEN FALSE
    ELSE IF s = <<>> THEN TRUE
    ELSE IF Head(s) # Head(t) THEN Rank(Head(s)) < Rank(Head(t))
    ELSE StrLess(Tail(s), Tail(t))

\* p < q for (start, end) tuples
PairLess(p, q) == StrLess(p[1], q[1]) \/ (p[1] = q[1] /\ StrLess(p[2], q[2]))

RECURSIVE SortPairs(_)
SortPairs(S) ==
    IF S = {} THEN <<>>
    ELSE LET m == CHOOSE x \in S : \A y \in S \ {x} : PairLess(x, y)
         IN  <<m>> \o SortPairs(S \ {m})

\* read_available_times over the texts of the container's elements
read_available_times(texts) ==
    SortPairs(UNION {ParseLabel(t) : t \in {x \in texts : XPathSelects(x)}})

----------------------------------------------------------------------------
(* match_targets *)

\* a variant that compares start times only
match_targets_by_start(available, targets) ==
    LET starts == {available[i][1] : i \in 1..Len(available)}
    IN  SelectSeq(targets, LAMBDA w : w[1] \in starts)

match_targets(available, targets) ==
    LET avail_set == {<<available[i][1], available[i][2]>> : i \in 1..Len(available)}
    IN  SelectSeq(targets, LAMBDA w : w \in avail_set)

----------------------------------------------------------------------------
(* The page: calendar header, day grid, slot list *)

LabelKinds == {"full", "noyear", "numeric", "unknown"}
OverflowModes == {"hidden", "enabled", "disabled"}

\* header.text for the displayed month: what month_key can find in it.
\*   name:  index of the Dutch month name the text contains (0: none)
\*   y20:   the number matched by (20\d{2}) (0: no match)
\*   num:   the groups of (\d{1,2})[\-/ ](\d{4}) (<<>>: no match)
HeaderText(cal, kind) ==
    CASE kind = "full"    -> [name |-> cal[1], y20 |-> cal[2], num |-> <<>>]
      [] kind = "noyear"  -> [name |-> cal[1], y20 |-> 0, num |-> <<>>]
      [] kind = "numeric" -> [name |-> 0, y20 |-> cal[2], num |-> <<cal[1], cal[2]>>]
      [] OTHER            -> [name |-> 0, y20 |-> 0, num |-> <<>>]

\* month_key (lines 176-195); thisYear is dt.date.today().year
month_key(text, thisYear) ==
    IF text.name # 0
    THEN <<text.name, IF text.y20 # 0 THEN text.y20 ELSE thisYear>>
    ELSE IF text.num # <<>> THEN text.num
    ELSE <<-1, -1>>

NextMonth(cal) == IF cal[1] = 12 THEN <<1, cal[2] + 1>> ELSE <<cal[1] + 1, cal[2]>>
PrevMonth(cal) == IF cal[1] = 1 THEN <<12, cal[2] - 1>> ELSE <<cal[1] - 1, cal[2]>>

MonthKeyOf(o) == <<MonthOf(o), YearOf(o)>>

\* the for loop of go_to_month (lines 203-214) from iteration i on: the month
\* displayed when the function returns, by the early return or by exhaustion
RECURSIVE MonthLoop(_, _, _, _, _)
MonthLoop(i, cal, kind, target_key, thisYear) ==
    IF i = 12 THEN cal
    ELSE IF month_key(HeaderText(cal, kind), thisYear) = target_key THEN cal
    ELSE MonthLoop(i + 1, NextMonth(cal), kind, target_key, thisYear)

go_to_month(cal, kind, target, thisYear) ==
    MonthLoop(0, cal, kind, <<MonthOf(target), YearOf(target)>>, thisYear)

\* The day grid of the displayed month in document order, weeks starting on
\* Monday: off = -1 / 0 / 1 for a cell of the previous / displayed / next month.
Grid(cal, mode) ==
    LET y     == cal[2]
        m     == cal[1]
        n     == DaysInMonth(y, m)
        lead  == weekday(Ordinal(y, m, 1))
        total == ((lead + n + 6) \div 7) * 7
        pm    == PrevMonth(cal)
        pn    == DaysInMonth(pm[2], pm[1])
        cell(k) ==
            IF k <= lead
            THEN [day |-> pn - lead + k, off |-> -1, disabled |-> mode = "disabled"]
            ELSE IF k <= lead + n
            THEN [day |-> k - lead, off |-> 0, disabled |-> FALSE]
            ELSE [day |-> k - lead - n, off |-> 1, disabled |-> mode = "disabled"]
        all == [k \in 1..total |-> cell(k)]
    IN  IF mode = "hidden" THEN SelectSeq(all, LAMBDA c : c.off = 0) ELSE all

\* pick_date, lines 219-224: the candidates list
Candidates(grid, day) ==
    LET first == SelectSeq(grid, LAMBDA c : ~c.disabled /\ c.day = day)
    IN  IF first # <<>> THEN first
        ELSE SelectSeq(grid, LAMBDA c : c.day = day)

\* the month and the date a cell of the grid stands for
CellMonth(cal, c) ==
    IF c.off = -1 THEN PrevMonth(cal)
    ELSE IF c.off = 1 THEN NextMonth(cal) ELSE cal

CellDate(cal, c) ==
    LET mk == CellMonth(cal, c) IN Ordinal(mk[2], mk[1], c.day)

\* the labels the page can show for a date: that weekday's windows and one
\* slot that is no target, each written as "start - end"
OtherSlot == Win("09:00", "10:30")
Render(w) == w[1] \o <<SP, HY, SP>> \o w[2]
PageLabels(date) ==
    {Render(w) : w \in Range(TARGET_WINDOWS(weekday(date))) \cup {OtherSlot}}

----------------------------------------------------------------------------
(* main *)

NoHarness ==
    /\ label = <<>> /\ parsed = <<>> /\ availA = <<>> /\ availB = <<>>
    /\ mwd = -1 /\ hitsA = <<>> /\ hitsB = <<>> /\ phase = "off"

Init ==
    /\ pc = "build"
    /\ today \in TodayFirst..(TodayFirst + TodaySpan - 1)
    /\ driver = "none"
    /\ quitCount = 0
    /\ raised = FALSE
    /\ durCalls = 0
    /\ durSelected = FALSE
    /\ target_dates = <<>>
    /\ todo = <<>>
    /\ cur = -1
    /\ attempted = {}
    /\ navigated = {}
    /\ monthOk = <<>>
    /\ clicks = <<>>
    /\ readLog = <<>>
    /\ all_hits = <<>>
    /\ reported = FALSE
    /\ calMonth = MonthKeyOf(today)
    /\ labelKind \in LabelKinds
    /\ overflowMode \in OverflowModes
    /\ listFor = 0
    /\ listLabels = {}
    /\ pending = 0
    /\ NoHarness

Put(f, k, v) == [x \in DOMAIN f \cup {k} |-> IF x = k THEN v ELSE f[x]]

pageVars == <<calMonth, labelKind, overflowMode, listFor, listLabels, pending>>
loopVars == <<target_dates, todo, cur, attempted, navigated, monthOk, clicks,
              readLog, all_hits>>

\* an exception raised inside the try block: control goes to the finally clause
Raise == raised' = TRUE /\ pc' = "finally"

\* line 278
BuildDriver ==
    /\ pc = "build"
    /\ \/ driver' = "open" /\ pc' = "set_timeout" /\ UNCHANGED raised
       \/ raised' = TRUE /\ pc' = "done" /\ UNCHANGED driver
    /\ UNCHANGED <<today, quitCount, durCalls, durSelected, reported,
                   loopVars, pageVars, harnessVars>>

\* line 279, before the try statement
SetPageLoadTimeout ==
    /\ pc = "set_timeout"
    /\ \/ pc' = "get" /\ UNCHANGED raised
       \/ raised' = TRUE /\ pc' = "done"
    /\ UNCHANGED <<today, driver, quitCount, durCalls, durSelected, reported,
                   loopVars, pageVars, harnessVars>>

\* line 285
GetPage ==
    /\ pc = "get"
    /\ \/ pc' = "login" /\ UNCHANGED raised
       \/ Raise
    /\ UNCHANGED <<today, driver, quitCount, durCalls, durSelected, reported,
                   loopVars, pageVars, harnessVars>>

\* line 288: returns at once without a user name, and logs any exception
LoginIfNeeded ==
    /\ pc = "login"
    /\ pc' = "facility"
    /\ UNCHANGED <<today, driver, quitCount, raised, durCalls, durSelected,
                   reported, loopVars, pageVars, harnessVars>>

\* line 291: logs any exception
OpenFacility ==
    /\ pc = "facility"
    /\ pc' = "duration"
    /\ UNCHANGED <<today, driver, quitCount, raised, durCalls, durSelected,
                   reported, loopVars, pageVars, harnessVars>>

\* a variant that logs a failure of select_duration and goes on, the way
\* open_facility does
SelectDuration_swallow ==
    /\ pc = "duration"
    /\ durCalls' = durCalls + 1
    /\ \/ durSelected' = TRUE
       \/ UNCHANGED durSelected
    /\ pc' = "dates"
    /\ UNCHANGED <<today, driver, quitCount, raised, reported, loopVars,
                   pageVars, harnessVars>>

\* line 294
SelectDuration ==
    /\ pc = "duration"
    /\ durCalls' = durCalls + 1
    /\ \/ durSelected' = TRUE /\ pc' = "dates" /\ UNCHANGED raised
       \/ Raise /\ UNCHANGED durSelected
    /\ UNCHANGED <<today, driver, quitCount, reported, loopVars, pageVars,
                   harnessVars>>

\* line 297
ResolveDates ==
    /\ pc = "dates"
    /\ target_dates' = get_target_dates_two_weeks_ahead(today)
    /\ todo' = SortedKeys(DOMAIN target_dates')
    /\ pc' = "loop"
    /\ UNCHANGED <<today, driver, quitCount, raised, durCalls, durSelected,
                   reported, cur, attempted, navigated, monthOk, clicks,
                   readLog, all_hits, pageVars, harnessVars>>

\* line 299: the next item of the for statement, or its end
LoopNext ==
    /\ pc = "loop"
    /\ IF todo = <<>>
       THEN /\ pc' = "report"
            /\ cur' = -1
            /\ UNCHANGED <<todo, attempted>>
       ELSE /\ pc' = "go_to_month"
            /\ cur' = Head(todo)
            /\ todo' = Tail(todo)
            /\ attempted' = attempted \cup {Head(todo)}
    /\ UNCHANGED <<today, driver, quitCount, raised, durCalls, durSelected,
                   reported, target_dates, navigated, monthOk, clicks,
                   readLog, all_hits, pageVars, harnessVars>>

\* line 301
GoToMonth ==
    /\ pc = "go_to_month"
    /\ \/ /\ calMonth' = go_to_month(calMonth, labelKind, target_dates[cur], YearOf(today))
          /\ navigated' = navigated \cup {cur}
          /\ monthOk' = Put(monthOk, cur, calMonth' = MonthKeyOf(target_dates[cur]))
          /\ pc' = "pick_date"
          /\ UNCHANGED raised
       \/ Raise /\ UNCHANGED <<calMonth, navigated, monthOk>>
    /\ UNCHANGED <<today, driver, quitCount, durCalls, durSelected, reported,
                   target_dates, todo, cur, attempted, clicks, readLog,
                   all_hits, labelKind, overflowMode, listFor, listLabels,
                   pending, harnessVars>>

\* lines 302-303: a click on an enabled cell makes the page select that
\* cell's date and start loading its slot list
PickDate ==
    /\ pc = "pick_date"
    /\ LET candidates == Candidates(Grid(calMonth, overflowMode), DayOf(target_dates[cur]))
       IN  \/ /\ candidates # <<>>
              /\ LET c == candidates[1] IN
                 /\ clicks' = Put(clicks, cur, c)
                 /\ IF c.disabled
                    THEN UNCHANGED <<calMonth, pending>>
                    ELSE /\ pending' = CellDate(calMonth, c)
                         /\ calMonth' = CellMonth(calMonth, c)
              /\ pc' = "read"
              /\ UNCHANGED raised
           \/ Raise /\ UNCHANGED <<clicks, calMonth, pending>>
    /\ UNCHANGED <<today, driver, quitCount, durCalls, durSelected, reported,
                   target_dates, todo, cur, attempted, navigated, monthOk,
                   readLog, all_hits, labelKind, overflowMode, listFor,
                   listLabels, harnessVars>>

\* the page, on its own: the slot-list control is replaced by the list of the
\* selected date
PageRefresh ==
    /\ driver = "open"
    /\ pending # 0
    /\ listFor' = pending
    /\ listLabels' \in SUBSET PageLabels(pending)
    /\ pending' = 0
    /\ UNCHANGED <<pc, today, driver, quitCount, raised, durCalls, durSelected,
                   reported, loopVars, calMonth, labelKind, overflowMode,
                   harnessVars>>

\* line 305: safe_find waits for the container to be present, not replaced.
\* Before any day is selected the page shows no list (listFor = 0) and the
\* wait goes on until one appears or the 10 s timeout raises.
ReadAvailableTimes ==
    /\ pc = "read"
    /\ \/ /\ listFor # 0
          /\ readLog' = Put(readLog, cur,
                            [shown |-> listFor, slots |-> read_available_times(listLabels)])
          /\ pc' = "match"
          /\ UNCHANGED raised
       \/ Raise /\ UNCHANGED readLog
    /\ UNCHANGED <<today, driver, quitCount, durCalls, durSelected, reported,
                   target_dates, todo, cur, attempted, navigated, monthOk,
                   clicks, all_hits, pageVars, harnessVars>>

\* a variant that stores the start time in both fields
Slot_start_twice(d, w) == [date |-> d, start |-> w[1], end |-> w[1]]

\* Slot(date_obj, s, e)
Slot(d, w) == [date |-> d, start |-> w[1], end |-> w[2]]

\* lines 306-309
MatchAndAppend ==
    /\ pc = "match"
    /\ LET hits == match_targets(readLog[cur].slots, TARGET_WINDOWS(cur))
       IN  all_hits' = all_hits \o [i \in 1..Len(hits) |-> Slot(target_dates[cur], hits[i])]
    /\ pc' = "loop"
    /\ UNCHANGED <<today, driver, quitCount, raised, durCalls, durSelected,
                   reported, target_dates, todo, cur, attempted, navigated,
                   monthOk, clicks, readLog, pageVars, harnessVars>>

\* lines 312-327
WriteReport ==
    /\ pc = "report"
    /\ \/ reported' = TRUE /\ pc' = "finally" /\ UNCHANGED raised
       \/ Raise /\ UNCHANGED reported
    /\ UNCHANGED <<today, driver, quitCount, durCalls, durSelected, loopVars,
                   pageVars, harnessVars>>

\* lines 329-330
Finally ==
    /\ pc = "finally"
    /\ quitCount' = quitCount + 1
    /\ driver' = "quit"
    /\ pc' = "done"
    /\ UNCHANGED <<today, raised, durCalls, durSelected, reported, loopVars,
                   pageVars, harnessVars>>

Next ==
    \/ BuildDriver
    \/ SetPageLoadTimeout
    \/ GetPage
    \/ LoginIfNeeded
    \/ OpenFacility
    \/ SelectDuration
    \/ ResolveDates
    \/ LoopNext
    \/ GoToMonth
    \/ PickDate
    \/ PageRefresh
    \/ ReadAvailableTimes
    \/ MatchAndAppend
    \/ WriteReport
    \/ Finally

Spec == Init /\ [][Next]_vars

----------------------------------------------------------------------------
(* Harness for read_available_times on one raw label *)

MainIdle ==
    /\ pc = "idle" /\ today = TodayFirst /\ driver = "none" /\ quitCount = 0
    /\ raised = FALSE /\ durCalls = 0 /\ durSelected = FALSE
    /\ target_dates = <<>> /\ todo = <<>> /\ cur = -1 /\ attempted = {}
    /\ navigated = {} /\ monthOk = <<>> /\ clicks = <<>> /\ readLog = <<>>
    /\ all_hits = <<>> /\ reported = FALSE /\ calMonth = <<1, 2024>>
    /\ labelKind = "full" /\ overflowMode = "hidden" /\ listFor = 0
    /\ listLabels = {} /\ pending = 0

Alphabet == {"20:00", "21:30", SP, NBSP, HY, EN, EM, LETTER}

SeqsUpTo(S, n) == UNION {[1..k -> S] : k \in 0..n}

InitParse ==
    /\ MainIdle
    /\ label \in SeqsUpTo(Alphabet, MaxLabelLen)
    /\ parsed = <<>>
    /\ phase = "label"
    /\ availA = <<>> /\ availB = <<>> /\ mwd = -1 /\ hitsA = <<>> /\ hitsB = <<>>

\* the container holds one element whose text is the label
ParseOne ==
    /\ phase = "label"
    /\ parsed' = read_available_times({label})
    /\ phase' = "parsed"
    /\ UNCHANGED <<mainVars, label, availA, availB, mwd, hitsA, hitsB>>

SpecParse == InitParse /\ [][ParseOne]_vars

----------------------------------------------------------------------------
(* Harness for match_targets on two available lists *)

\* a placeholder such as "no times available" never parses to a time pair;
\* NearMiss shares its start with one Sunday window and its end with the other
Placeholder == <<Str(LETTER), Str(LETTER)>>
NearMiss == Win("14:00", "17:00")

SlotChoices ==
    UNION {Range(TARGET_WINDOWS(wd)) : wd \in TargetWeekdays}
        \cup {NearMiss, Placeholder}

InitMatch ==
    /\ MainIdle
    /\ availA \in SeqsUpTo(SlotChoices, MaxAvail)
    /\ availB \in SeqsUpTo(SlotChoices, MaxAvail)
    /\ mwd \in TargetWeekdays
    /\ hitsA = <<>> /\ hitsB = <<>>
    /\ phase = "avail"
    /\ label = <<>> /\ parsed = <<>>

Match ==
    /\ phase = "avail"
    /\ hitsA' = match_targets(availA, TARGET_WINDOWS(mwd))
    /\ hitsB' = match_targets(availB, TARGET_WINDOWS(mwd))
    /\ phase' = "matched"
    /\ UNCHANGED <<mainVars, label, parsed, availA, availB, mwd>>

SpecMatch == InitMatch /\ [][Match]_vars

----------------------------------------------------------------------------
(* Claims *)

\* C1: for every "today", get_target_dates_two_weeks_ahead returns one date
\* per configured weekday, each on the weekday it is keyed by, all inside the
\* Monday-anchored week that contains today + 14, and that week starts at
\* least 8 and at most 14 days after today.
C1_DatesInWeekTwoAhead ==
    target_dates # <<>> =>
        /\ DOMAIN target_dates = TargetWeekdays
        /\ \A wd \in TargetWeekdays : weekday(target_dates[wd]) = wd
        /\ \E m \in (today + 8)..(today + 14) :
              /\ weekday(m) = 0
              /\ m <= today + 14 /\ today + 14 <= m + 6
              /\ \A wd \in TargetWeekdays :
                    m <= target_dates[wd] /\ target_dates[wd] <= m + 6

\* C1 witness: today is a Sunday, itself a target weekday; the resolved
\* Monday is 8 days ahead and the resolved Sunday is today + 14.
C1_Witness ==
    /\ target_dates # <<>>
    /\ weekday(today) = 6
    /\ target_dates[0] = today + 8
    /\ target_dates[6] = today + 14

\* C2: when a date's navigation fails, the loop still attempts every
\* remaining date: a finished run that attempted a date whose slots were
\* never read has attempted all configured dates.
C2_AllDatesAttempted ==
    (pc = "done" /\ \E wd \in attempted : wd \notin DOMAIN readLog)
        => attempted = TargetWeekdays

\* C3: in every finished execution that acquired the driver, driver.quit()
\* was called exactly once, and nothing runs on the driver after quit.
C3_DriverAlwaysQuit ==
    /\ (pc = "done" /\ driver # "none") => quitCount = 1
    /\ driver = "quit" => pc = "done"

IsTimePair(p) ==
    /\ Len(p[1]) = 1 /\ p[1][1] \in Times
    /\ Len(p[2]) = 1 /\ p[2][1] \in Times

\* C4: match_targets returns exactly the weekday's windows that are members
\* of available, each once; lists with the same elements (permuted or
\* duplicated) give the same hits; no time pair in available gives no hit.
C4_MatchExactAndOrderFree ==
    phase = "matched" =>
        /\ Range(hitsA) = Range(TARGET_WINDOWS(mwd)) \cap Range(availA)
        /\ Len(hitsA) = Cardinality(Range(hitsA))
        /\ Len(hitsA) <= Len(TARGET_WINDOWS(mwd))
        /\ (Range(availA) = Range(availB) => hitsA = hitsB)
        /\ ((\A i \in 1..Len(availA) : ~IsTimePair(availA[i])) => hitsA = <<>>)

\* C4 witness: Sunday, both windows available, the other list is the same
\* slots in the opposite order: two hits from each.
C4_Witness ==
    /\ phase = "matched"
    /\ mwd = 6
    /\ availA = <<Win("14:00", "15:30"), Win("15:30", "17:00")>>
    /\ availB = <<Win("15:30", "17:00"), Win("14:00", "15:30")>>
    /\ Len(hitsA) = 2
    /\ hitsB = hitsA

HitWindow(h) == <<h.start, h.end>>

\* the (weekday, window) pairs a complete run must report
ExpectedHits ==
    {<<wd, w>> \in TargetWeekdays \X SlotChoices :
        /\ wd \in DOMAIN readLog
        /\ w \in Range(TARGET_WINDOWS(wd))
        /\ w \in Range(readLog[wd].slots)}

\* C5: every entry of all_hits is (date, window) with date a resolved target
\* date, window configured for that date's weekday and among the slots read
\* for that date; when all dates were read, every such pair is there once.
C5_HitsAreMatches ==
    /\ \A i \in 1..Len(all_hits) :
          \E wd \in TargetWeekdays \cap DOMAIN readLog :
              /\ all_hits[i].date = target_dates[wd]
              /\ HitWindow(all_hits[i]) \in Range(TARGET_WINDOWS(wd))
              /\ HitWindow(all_hits[i]) \in Range(readLog[wd].slots)
    /\ (pc \in {"report", "finally", "done"} /\ DOMAIN readLog = TargetWeekdays) =>
          /\ Len(all_hits) = Cardinality(ExpectedHits)
          /\ \A e \in ExpectedHits :
                \E i \in 1..Len(all_hits) :
                    /\ all_hits[i].date = target_dates[e[1]]
                    /\ HitWindow(all_hits[i]) = e[2]

\* C5 witness: today is a Wednesday, Monday's 20:00-21:30 was read, Thursday
\* had no slot, nothing raised: the finished run holds one hit, Monday's.
C5_Witness ==
    /\ pc = "done" /\ ~raised /\ reported
    /\ weekday(today) = 2
    /\ DOMAIN readLog = TargetWeekdays
    /\ readLog[0].slots = <<Win("20:00", "21:30")>>
    /\ readLog[3].slots = <<>>
    /\ Len(all_hits) = 1
    /\ all_hits[1] = Slot(target_dates[0], Win("20:00", "21:30"))

RECURSIVE dropSpaces(_)
dropSpaces(s) ==
    IF s = <<>> THEN <<>>
    ELSE IF IsSpace(Head(s)) THEN dropSpaces(Tail(s))
    ELSE <<Head(s)>> \o dropSpaces(Tail(s))

\* "20:00", one dash glyph, "21:30", with spaces or no-break spaces anywhere
IsVariantOfWindow(l) ==
    \E d \in {HY, EN, EM} : dropSpaces(l) = <<"20:00", d, "21:30">>

\* C6: every whitespace / dash-glyph variant of "20:00 - 21:30" is read as
\* the one pair ("20:00", "21:30") and so matches Monday's window.
C6_VariantsReadAlike ==
    (phase = "parsed" /\ IsVariantOfWindow(label)) =>
        /\ parsed = <<Win("20:00", "21:30")>>
        /\ match_targets(parsed, TARGET_WINDOWS(0)) = <<Win("20:00", "21:30")>>

\* C7: the list read for a date is the list the page made for that date
\* (here: whenever pick_date clicked that date's own cell in its month).
C7_ReadsOwnList ==
    \A wd \in DOMAIN readLog :
        (monthOk[wd] /\ clicks[wd].off = 0 /\ ~clicks[wd].disabled)
            => readLog[wd].shown = target_dates[wd]

\* C8: whenever go_to_month returned normally, the calendar displayed the
\* month and year of the date it was called for.
C8_MonthReached ==
    \A wd \in DOMAIN monthOk : monthOk[wd]

\* C9: the cell pick_date clicked carries the date's day of month and
\* belongs to the displayed month.
C9_ClicksInMonthCell ==
    \A wd \in DOMAIN clicks :
        /\ clicks[wd].day = DayOf(target_dates[wd])
        /\ clicks[wd].off = 0

\* C10: select_duration is called once per run, before any date is
\* navigated; when it fails no date is navigated, no list is read and no hit
\* is recorded.
C10_DurationOnceAndFirst ==
    /\ durCalls <= 1
    /\ (pc \notin {"build", "set_timeout", "get", "login", "facility", "duration"}
            /\ target_dates # <<>>) => durCalls = 1
    /\ attempted # {} => (durCalls = 1 /\ durSelected)
    /\ (durCalls = 1 /\ ~durSelected) =>
          /\ pc \in {"finally", "done"}
          /\ raised
          /\ target_dates = <<>> /\ attempted = {} /\ navigated = {}
          /\ clicks = <<>> /\ readLog = <<>> /\ all_hits = <<>> /\ ~reported

\* C10 witness: a finished run that attempted all four dates after one
\* duration selection.
C10_Witness ==
    /\ pc = "done"
    /\ attempted = TargetWeekdays
    /\ DOMAIN readLog = TargetWeekdays
    /\ durCalls = 1 /\ durSelected

====
